---- MODULE Spec2Model ----
(***************************************************************************)
(* Model of src/server.py: the eight FastMCP tools of the PyAutoGUI        *)
(* server, run as coroutines on one cooperative event loop.                *)
(*                                                                         *)
(* A tool call is validated by the framework against the Field             *)
(* constraints the handler's signature declares, then the handler body     *)
(* runs.  The body is synchronous except for click's `await ctx.info`.     *)
(* Floats (interval, confidence) are kept in tenths.                       *)
(***************************************************************************)
EXTENDS Integers, Sequences, FiniteSets, TLC

\* ------------------------------------------------------------- bounds
NumTasks == 2          \* tool calls that can be in flight together
MaxKeys == 2           \* longest key list given to press_hotkey

\* ---------------------------------------------------- program constants
ClicksMin == 1         \* Field(ge=1) of click.clicks
ClicksDefault == 1
IntervalMin == 0       \* Field(ge=0.0) of type_text.interval
IntervalDefault == 0
ConfidenceMin == 0     \* Field(ge=0.0) of confidence
ConfidenceMax == 10    \* Field(le=1.0) of confidence, in tenths
ConfidenceDefault == 9 \* = 0.9

VARIABLES PILImage, task, loop, pointer, held, response

vars == <<PILImage, task, loop, pointer, held, response>>

Tasks == 1..NumTasks

\* The screen coordinates the calls and the search results are drawn from.
Coord == {0, 1}

\* ------------------------------------------------------------- helpers
Range(s) == {s[i] : i \in DOMAIN s}

SeqsUpTo(S, n) == UNION {[1..k -> S] : k \in 0..n}

\* ------------------------------------------------ the tool registry
Tools ==
    {"move_to", "click", "type_text", "press_key", "press_hotkey",
     "find_image_on_screen", "take_screenshot", "get_screen_size"}

\* The annotations each @mcp.tool(...) decorator passes: the hints it sets.
Annotations(tool) ==
    CASE tool = "move_to" -> {"destructiveHint", "openWorldHint"}
      [] tool = "click" -> {"destructiveHint", "openWorldHint"}
      [] tool = "type_text" -> {"destructiveHint", "openWorldHint"}
      [] tool = "press_key" -> {"destructiveHint", "openWorldHint"}
      [] tool = "press_hotkey" -> {"destructiveHint", "openWorldHint"}
      [] tool = "find_image_on_screen" -> {"readOnlyHint", "openWorldHint"}
      [] tool = "take_screenshot" -> {"readOnlyHint", "openWorldHint"}
      [] tool = "get_screen_size" -> {"readOnlyHint", "openWorldHint"}

\* The parameters a handler's signature declares without a default.
Required(tool) ==
    CASE tool = "move_to" -> {"x", "y"}
      [] tool = "click" -> {"x", "y"}
      [] tool = "type_text" -> {"text"}
      [] tool = "press_key" -> {"key"}
      [] tool = "press_hotkey" -> {"keys"}
      [] tool = "find_image_on_screen" -> {"image_data_base64"}
      [] OTHER -> {}

\* The defaults a handler's signature declares.
Defaults(tool) ==
    CASE tool = "click" -> [button |-> "left", clicks |-> ClicksDefault]
      [] tool = "type_text" -> [interval |-> IntervalDefault]
      [] tool = "find_image_on_screen" -> [confidence |-> ConfidenceDefault]
      [] OTHER -> [p \in {} |-> 0]

\* The arguments the handler body sees: the caller's, then the defaults.
Bind(tool, args) ==
    [p \in DOMAIN args \cup DOMAIN Defaults(tool) |->
        IF p \in DOMAIN args THEN args[p] ELSE Defaults(tool)[p]]

Buttons == {"left", "right", "middle"}

\* Literal["left", "right", "middle"]
ButtonOk(b) == b \in Buttons

\* The bound of clicks off by one: ge=0.
ClicksOkOffByOne(n) == n >= ClicksMin - 1

\* Field(ge=1)
ClicksOk(n) == n >= ClicksMin

\* Field(ge=0.0)
IntervalOk(i) == i >= IntervalMin

\* Field(ge=0.0, le=1.0)
ConfidenceOk(c) == c >= ConfidenceMin /\ c <= ConfidenceMax

\* The framework's check of a call against the declared signature: every
\* required parameter present, every constrained one within its constraint.
Validates(tool, args) ==
    /\ Required(tool) \subseteq DOMAIN args
    /\ LET a == Bind(tool, args) IN
       CASE tool = "click" -> ButtonOk(a.button) /\ ClicksOk(a.clicks)
         [] tool = "type_text" -> IntervalOk(a.interval)
         [] tool = "find_image_on_screen" -> ConfidenceOk(a.confidence)
         [] OTHER -> TRUE

\* ---------------------------------------------------- base64.b64decode
\* The base64 alphabet, in index order.
B64Alphabet ==
    <<"A","B","C","D","E","F","G","H","I","J","K","L","M","N","O","P",
      "Q","R","S","T","U","V","W","X","Y","Z","a","b","c","d","e","f",
      "g","h","i","j","k","l","m","n","o","p","q","r","s","t","u","v",
      "w","x","y","z","0","1","2","3","4","5","6","7","8","9","+","/">>

B64Index(ch) == CHOOSE i \in 0..63 : B64Alphabet[i + 1] = ch

B64Chars == {B64Alphabet[i] : i \in 1..64}

IsB64Char(ch) == ch \in B64Chars

\* binascii.a2b_base64 in its default, non-strict mode, which is what
\* base64.b64decode(s) runs: characters outside the alphabet are skipped, a
\* completed pad sequence ends the parse, and leftover data characters are
\* the only error ("Incorrect padding").
RECURSIVE A2B(_, _, _, _, _, _)
A2B(s, i, quad, left, pads, out) ==
    IF i > Len(s)
    THEN [ok |-> quad = 0, bytes |-> IF quad = 0 THEN out ELSE <<>>]
    ELSE IF s[i] = "="
    THEN IF quad >= 2 /\ quad + pads + 1 >= 4
         THEN [ok |-> TRUE, bytes |-> out]
         ELSE A2B(s, i + 1, quad, left,
                  IF quad >= 2 THEN pads + 1 ELSE pads, out)
    ELSE IF ~IsB64Char(s[i])
    THEN A2B(s, i + 1, quad, left, pads, out)
    ELSE LET v == B64Index(s[i]) IN
         CASE quad = 0 -> A2B(s, i + 1, 1, v, 0, out)
           [] quad = 1 ->
                A2B(s, i + 1, 2, v % 16, 0, Append(out, left * 4 + v \div 16))
           [] quad = 2 ->
                A2B(s, i + 1, 3, v % 4, 0, Append(out, left * 16 + v \div 4))
           [] quad = 3 ->
                A2B(s, i + 1, 0, 0, 0, Append(out, left * 64 + v))

b64decode(s) == A2B(s, 1, 0, 0, 0, <<>>)

\* PILImage.open(io.BytesIO(image_bytes)) identifies a raster format by the
\* header of the bytes and raises UnidentifiedImageError otherwise.  The
\* model keeps one signature, the two-byte "BM" of a bitmap.
IsRasterImage(bytes) == Len(bytes) >= 2 /\ bytes[1] = 66 /\ bytes[2] = 77

\* The names the base64 module defines that the handler reaches for.  The
\* module has no attribute Error (the decoder raises binascii.Error).
Base64Attrs == {"b64decode", "b64encode", "binascii"}

\* ------------------------------------------------------------- results
Return(v) ==
    [kind |-> "return", exc |-> "", msg |-> "", cause |-> "", value |-> v]

\* An exception leaving the handler: its class, its message template and
\* the message of the failure it wraps (the {e} of the f-string).
Raise(exc, msg, cause) ==
    [kind |-> "raise", exc |-> exc, msg |-> msg, cause |-> cause,
     value |-> <<"None">>]

NoResult ==
    [kind |-> "none", exc |-> "", msg |-> "", cause |-> "", value |-> <<"None">>]

NoArgs == [p \in {} |-> 0]

NoCall == [tool |-> "none", args |-> NoArgs, ctx |-> FALSE]

Idle == [pc |-> "idle", call |-> NoCall, prims |-> <<>>]

NoResponse ==
    [call |-> NoCall, result |-> NoResult, prims |-> <<>>, outcome |-> <<"none">>]

\* What a library call came back with: <<"ok">>, <<"raise", message>>, or,
\* from the screen search, <<"None">> or <<"point", x, y>>.
Outcome(e) == IF e = "ok" THEN <<"ok">> ELSE <<"raise", e>>

Prim(name, args) == [name |-> name, args |-> args]

\* What find_image_on_screen's except clauses make of an exception raised
\* in its try block.  The first clause evaluates base64.Error to match
\* against it; a failed attribute lookup raises AttributeError out of the
\* try statement before either clause can match.
FindImageExcept(exc, cause) ==
    IF "Error" \notin Base64Attrs
    THEN Raise("AttributeError", "module 'base64' has no attribute 'Error'", cause)
    ELSE IF exc = "binascii.Error"
    THEN Raise("ValueError", "Invalid Base64 string provided for image data.", "")
    ELSE Raise("RuntimeError", "An error occurred while trying to find the image", cause)

\* --------------------------------------------------------------- inputs
Merge(a, b) == [p \in DOMAIN a \cup DOMAIN b |-> IF p \in DOMAIN b THEN b[p] ELSE a[p]]

KeyNames == {"ctrl", "c"}

\* Messages of the failures a platform or library call can raise.
FailureMessages == {"FailSafeException"}

MoveArgs == {[x |-> x, y |-> y] : x \in Coord, y \in Coord} \cup {[x |-> 0]}

\* Every point with the defaults; one call with both optional parameters
\* given; then a button outside the Literal, clicks of 0 and -1, x missing.
ClickArgs ==
    {[x |-> x, y |-> y] : x \in Coord, y \in Coord}
        \cup {Merge([x |-> 1, y |-> 0], o) :
                 o \in {[button |-> "right", clicks |-> 2], [button |-> "side"],
                        [clicks |-> 0], [clicks |-> -1]}}
        \cup {[y |-> 0]}

TypeArgs ==
    {[text |-> <<>>], [text |-> <<"c">>],
     [text |-> <<"c">>, interval |-> 5], [text |-> <<"c">>, interval |-> -1],
     [interval |-> 0]}

KeyArgs == {[key |-> k] : k \in KeyNames} \cup {NoArgs}

HotkeyArgs == {[keys |-> ks] : ks \in SeqsUpTo(KeyNames, MaxKeys)} \cup {NoArgs}

\* "Qk0=" is the bitmap signature, "UEE=" two other bytes; the rest are not
\* base64: a missing pad, a lone character, characters outside the alphabet.
B64Inputs ==
    {<<"Q","k","0","=">>, <<"U","E","E","=">>, <<>>,
     <<"Q","k","0">>, <<"Q">>, <<"!","!">>, <<"!","Q","k","0","=">>}

\* Every string with the default confidence; the bitmap and a malformed
\* string with confidences at and beyond both ends of the range; and the
\* string missing.
FindArgs ==
    {[image_data_base64 |-> s] : s \in B64Inputs}
        \cup {[image_data_base64 |-> s, confidence |-> v] :
                 s \in {<<"Q","k","0","=">>, <<"Q","k","0">>},
                 v \in {-1, 0, 10, 11}}
        \cup {[confidence |-> 9]}

MkCall(tool, args, ctx) == [tool |-> tool, args |-> args, ctx |-> ctx]

\* ------------------------------------------------------ the event loop
\* Handlers that await their platform call too (run in a worker thread).
YieldsInPlatformCall(tool, pc) == pc \in {"log", "prim"}

\* Whether a handler gives the event loop up at this point of its body.
\* The handlers are coroutines, but the only await in the file is click's
\* `await ctx.info(...)`; every pyautogui call is a plain blocking call.
Yields(tool, pc) == tool = "click" /\ pc = "log"

LoopAfter(t, tool, pc) == IF Yields(tool, pc) THEN 0 ELSE t

\* The loop starts a new call's coroutine only when no coroutine is running.
\* The call takes the first free slot.
Accept(t) ==
    /\ task[t].pc = "idle"
    /\ loop = 0
    /\ \A u \in Tasks : u < t => task[u].pc # "idle"

\* A suspended or blocked coroutine goes on when the loop is its own or free.
Resumes(t, pc) == task[t].pc = pc /\ loop \in {0, t}

\* The keys the keyboard holds down while the last library call is under
\* way: hotkey presses all its keys down, in order, before it releases any;
\* press holds its one key.
KeysHeldBy(prims) ==
    IF prims = <<>> THEN {}
    ELSE LET p == prims[Len(prims)] IN
         IF p.name = "hotkey" THEN Range(p.args)
         ELSE IF p.name = "press" THEN {p.args}
         ELSE {}

\* The framework rejects the call: the handler body never runs.
Reject(c) ==
    /\ response' = [call |-> c, prims |-> <<>>, outcome |-> <<"none">>,
                    result |-> Raise("ValidationError", "validation error", "")]
    /\ UNCHANGED <<PILImage, task, loop, pointer, held>>

\* The handler ran to its end within the step, without a platform call.
Complete(c, result, prims, outcome) ==
    /\ response' = [call |-> c, prims |-> prims, result |-> result,
                    outcome |-> outcome]
    /\ UNCHANGED <<PILImage, task, loop, pointer, held>>

\* The handler has reached a call that takes time: the log message's await
\* (pc "log") or a blocking platform call (pc "prim").
Suspend(t, c, pc, prims) ==
    /\ task' = [task EXCEPT ![t] = [pc |-> pc, call |-> c, prims |-> prims]]
    /\ loop' = LoopAfter(t, c.tool, pc)
    /\ held' = IF pc = "prim" THEN KeysHeldBy(prims) ELSE held
    /\ response' = NoResponse
    /\ UNCHANGED <<PILImage, pointer>>

\* A find_image_on_screen that moves the pointer onto the match.
PointerFollowsMatch(c, outcome) ==
    IF c.tool \in {"move_to", "click"} /\ outcome = <<"ok">>
    THEN <<c.args.x, c.args.y>>
    ELSE IF c.tool = "find_image_on_screen" /\ outcome[1] = "point"
    THEN <<outcome[2], outcome[3]>>
    ELSE pointer

\* Where the pointer is once a handler's platform call is over: moveTo and
\* click put it at (x, y); no other call of the file touches it.
PointerAfter(c, outcome) ==
    IF c.tool \in {"move_to", "click"} /\ outcome = <<"ok">>
    THEN <<c.args.x, c.args.y>>
    ELSE pointer

\* The handler ends: its result goes back, the loop is free again.
Finish(t, result, prims, outcome) ==
    /\ response' = [call |-> task[t].call, prims |-> prims, result |-> result,
                    outcome |-> outcome]
    /\ task' = [task EXCEPT ![t] = Idle]
    /\ loop' = 0
    /\ held' = {}
    /\ pointer' = PointerAfter(task[t].call, outcome)
    /\ UNCHANGED PILImage

\* ------------------------------------------------------------ handlers
move_to(t) ==
    /\ Accept(t)
    /\ \E args \in MoveArgs :
         LET c == MkCall("move_to", args, FALSE) IN
         IF ~Validates("move_to", args) THEN Reject(c)
         ELSE Suspend(t, c, "prim", <<Prim("moveTo", <<args.x, args.y>>)>>)

move_to_return(t) ==
    /\ Resumes(t, "prim")
    /\ task[t].call.tool = "move_to"
    /\ \E e \in FailureMessages \cup {"ok"} :
         IF e = "ok"
         THEN Finish(t, Return(<<"None">>), task[t].prims, Outcome(e))
         ELSE Finish(t, Raise("RuntimeError", "Failed to move mouse", e),
                     task[t].prims, Outcome(e))

ClickPrim(a) == Prim("click", <<a.x, a.y, a.button, a.clicks>>)

click(t) ==
    /\ Accept(t)
    /\ \E args \in ClickArgs, ctx \in BOOLEAN :
         LET c == MkCall("click", args, ctx)
             a == Bind("click", args)
         IN  IF ~Validates("click", args) THEN Reject(c)
             ELSE IF ctx THEN Suspend(t, c, "log", <<Prim("ctx.info", <<>>)>>)
             ELSE Suspend(t, c, "prim", <<ClickPrim(a)>>)

\* `await ctx.info(...)` is over.  It stands before the try block, so what
\* it raises leaves the handler as it is.
click_logged(t) ==
    /\ Resumes(t, "log")
    /\ LET a == Bind("click", task[t].call.args) IN
       \E e \in {"ok", "ClosedResourceError"} :
         IF e = "ok"
         THEN Suspend(t, task[t].call, "prim", Append(task[t].prims, ClickPrim(a)))
         ELSE Finish(t, Raise(e, "", ""), task[t].prims, Outcome(e))

click_return(t) ==
    /\ Resumes(t, "prim")
    /\ task[t].call.tool = "click"
    /\ \E e \in FailureMessages \cup {"ok"} :
         IF e = "ok"
         THEN Finish(t, Return(<<"None">>), task[t].prims, Outcome(e))
         ELSE Finish(t, Raise("RuntimeError", "Failed to click at", e),
                     task[t].prims, Outcome(e))

type_text(t) ==
    /\ Accept(t)
    /\ \E args \in TypeArgs :
         LET c == MkCall("type_text", args, FALSE)
             a == Bind("type_text", args)
         IN  IF ~Validates("type_text", args) THEN Reject(c)
             ELSE Suspend(t, c, "prim", <<Prim("typewrite", <<a.text, a.interval>>)>>)

type_text_return(t) ==
    /\ Resumes(t, "prim")
    /\ task[t].call.tool = "type_text"
    /\ \E e \in FailureMessages \cup {"ok"} :
         IF e = "ok"
         THEN Finish(t, Return(<<"None">>), task[t].prims, Outcome(e))
         ELSE Finish(t, Raise("RuntimeError", "Failed to type text", e),
                     task[t].prims, Outcome(e))

press_key(t) ==
    /\ Accept(t)
    /\ \E args \in KeyArgs :
         LET c == MkCall("press_key", args, FALSE) IN
         IF ~Validates("press_key", args) THEN Reject(c)
         ELSE Suspend(t, c, "prim", <<Prim("press", args.key)>>)

press_key_return(t) ==
    /\ Resumes(t, "prim")
    /\ task[t].call.tool = "press_key"
    /\ \E e \in FailureMessages \cup {"ok"} :
         IF e = "ok"
         THEN Finish(t, Return(<<"None">>), task[t].prims, Outcome(e))
         ELSE Finish(t, Raise("ValueError", "Failed to press key", e),
                     task[t].prims, Outcome(e))

\* The keys pressed one after the other, each with its own press call.
KeysPressedInTurn(keys) == [i \in 1..Len(keys) |-> Prim("press", keys[i])]

\* pyautogui.hotkey(*keys): one call, the list unpacked in its order.
HotkeyPrims(keys) == <<Prim("hotkey", keys)>>

press_hotkey(t) ==
    /\ Accept(t)
    /\ \E args \in HotkeyArgs :
         LET c == MkCall("press_hotkey", args, FALSE) IN
         IF ~Validates("press_hotkey", args) THEN Reject(c)
         ELSE Suspend(t, c, "prim", HotkeyPrims(args.keys))

press_hotkey_return(t) ==
    /\ Resumes(t, "prim")
    /\ task[t].call.tool = "press_hotkey"
    /\ \E e \in FailureMessages \cup {"ok"} :
         IF e = "ok"
         THEN Finish(t, Return(<<"None">>), task[t].prims, Outcome(e))
         ELSE Finish(t, Raise("ValueError", "Failed to press hotkey combination", e),
                     task[t].prims, Outcome(e))

\* The image tools without their check of PILImage.
PillowCheckSkipped == FALSE

\* `if PILImage is None`, the first statement of both image tools.
PillowMissing == PILImage = "None"

\* The RuntimeError that statement raises.
PillowRequired ==
    Raise("RuntimeError",
          "Pillow (PIL) library is required for this tool but not installed.", "")

\* The handler's try block up to the screen search: decode the string, open
\* the bytes, then call locateCenterOnScreen.
find_image_on_screen(t) ==
    /\ Accept(t)
    /\ \E args \in FindArgs :
         LET c == MkCall("find_image_on_screen", args, FALSE)
             a == Bind("find_image_on_screen", args)
         IN  IF ~Validates("find_image_on_screen", args) THEN Reject(c)
             ELSE IF PillowMissing THEN Complete(c, PillowRequired, <<>>, <<"none">>)
             ELSE LET s == a.image_data_base64
                      d == b64decode(s)
                      decode == <<Prim("b64decode", s)>>
                      open == Append(decode, Prim("PILImage.open", d.bytes))
                  IN  IF ~d.ok
                      THEN Complete(c, FindImageExcept("binascii.Error",
                                                       "Incorrect padding"),
                                    decode, <<"raise", "Incorrect padding">>)
                      ELSE IF ~IsRasterImage(d.bytes)
                      THEN Complete(c, FindImageExcept("UnidentifiedImageError",
                                                       "cannot identify image file"),
                                    open, <<"raise", "cannot identify image file">>)
                      ELSE Suspend(t, c, "prim",
                                   Append(open, Prim("locateCenterOnScreen",
                                                     <<d.bytes, a.confidence>>)))

\* What the screen search can come back with: a point, None, or a failure.
SearchOutcomes ==
    {<<"point", x, y>> : x \in Coord, y \in Coord}
        \cup {<<"None">>} \cup {<<"raise", e>> : e \in FailureMessages}

\* A handler that raises when the search returns None.
NotFoundRaises(location) ==
    IF location[1] = "point" THEN Return(location)
    ELSE FindImageExcept("Exception", "image not found")

\* `if location is None: return None`, else the dict of location.x and
\* location.y; what the search raises goes to the except clauses.
FindImageResult(location) ==
    IF location[1] = "None" THEN Return(<<"None">>)
    ELSE IF location[1] = "point" THEN Return(location)
    ELSE FindImageExcept("Exception", location[2])

find_image_on_screen_return(t) ==
    /\ Resumes(t, "prim")
    /\ task[t].call.tool = "find_image_on_screen"
    /\ \E location \in SearchOutcomes :
         Finish(t, FindImageResult(location), task[t].prims, location)

take_screenshot(t) ==
    /\ Accept(t)
    /\ LET c == MkCall("take_screenshot", NoArgs, FALSE) IN
       IF ~Validates("take_screenshot", NoArgs) THEN Reject(c)
       ELSE IF PillowMissing THEN Complete(c, PillowRequired, <<>>, <<"none">>)
       ELSE Suspend(t, c, "prim", <<Prim("screenshot", <<>>)>>)

\* pyautogui.screenshot(), then screenshot_pil.save(buffer, format="PNG");
\* a failure of either is caught by the one except clause.
take_screenshot_return(t) ==
    /\ Resumes(t, "prim")
    /\ task[t].call.tool = "take_screenshot"
    /\ LET saved == Append(task[t].prims, Prim("save", "PNG")) IN
       \E stage \in {"screenshot", "save"}, e \in FailureMessages \cup {"ok"} :
         IF e = "ok"
         THEN stage = "save" /\ Finish(t, Return(<<"png">>), saved, Outcome(e))
         ELSE Finish(t, Raise("RuntimeError", "Failed to take screenshot", e),
                     IF stage = "save" THEN saved ELSE task[t].prims, Outcome(e))

get_screen_size(t) ==
    /\ Accept(t)
    /\ LET c == MkCall("get_screen_size", NoArgs, FALSE) IN
       IF ~Validates("get_screen_size", NoArgs) THEN Reject(c)
       ELSE Suspend(t, c, "prim", <<Prim("size", <<>>)>>)

get_screen_size_return(t) ==
    /\ Resumes(t, "prim")
    /\ task[t].call.tool = "get_screen_size"
    /\ \E e \in FailureMessages \cup {"ok"} :
         IF e = "ok"
         THEN Finish(t, Return(<<"size", Cardinality(Coord), Cardinality(Coord)>>),
                     task[t].prims, Outcome(e))
         ELSE Finish(t, Raise("RuntimeError", "Failed to get screen size", e),
                     task[t].prims, Outcome(e))

\* ------------------------------------------------------- specification
\* Startup: the import of PIL either succeeded or left PILImage None; the
\* pointer is wherever the desktop has it.
Init ==
    /\ PILImage \in {"module", "None"}
    /\ task = [t \in Tasks |-> Idle]
    /\ loop = 0
    /\ pointer \in Coord \X Coord
    /\ held = {}
    /\ response = NoResponse

Next ==
    \E t \in Tasks :
        \/ move_to(t)
        \/ move_to_return(t)
        \/ click(t)
        \/ click_logged(t)
        \/ click_return(t)
        \/ type_text(t)
        \/ type_text_return(t)
        \/ press_key(t)
        \/ press_key_return(t)
        \/ press_hotkey(t)
        \/ press_hotkey_return(t)
        \/ find_image_on_screen(t)
        \/ find_image_on_screen_return(t)
        \/ take_screenshot(t)
        \/ take_screenshot_return(t)
        \/ get_screen_size(t)
        \/ get_screen_size_return(t)

Spec == Init /\ [][Next]_vars

\* =============================================================== claims
\* The exception classes the file uses for its error kinds: bad caller input
\* is the framework's ValidationError or the handler's own ValueError (line
\* 183); a failed action, capture or search, or the missing imaging library,
\* is a RuntimeError told apart by its message.
InvalidArgument == {"ValidationError", "ValueError"}

TaxonomyClasses == {"ValidationError", "ValueError", "RuntimeError"}

InputTools == {"move_to", "click", "type_text", "press_key", "press_hotkey"}

ReadOnlyTools == {"find_image_on_screen", "take_screenshot", "get_screen_size"}

PointerPrims == {"moveTo", "click"}

KeyboardPrims == {"typewrite", "press", "hotkey"}

PlatformPrims ==
    PointerPrims \cup KeyboardPrims
        \cup {"screenshot", "size", "locateCenterOnScreen"}

PrimNames(prims) == {prims[i].name : i \in DOMAIN prims}

Responded == response.result.kind # "none"

Has(c, p) == p \in DOMAIN c.args

\* The calls claim C1 lists: arguments outside the declared constraints.
Violates(c) ==
    \/ c.tool = "click" /\ Has(c, "clicks") /\ c.args.clicks <= 0
    \/ c.tool = "click" /\ Has(c, "button")
         /\ c.args.button \notin {"left", "right", "middle"}
    \/ c.tool = "type_text" /\ Has(c, "interval") /\ c.args.interval < 0
    \/ c.tool = "find_image_on_screen" /\ Has(c, "confidence")
         /\ (c.args.confidence < 0 \/ c.args.confidence > 10)
    \/ c.tool \in {"move_to", "click"} /\ ~(Has(c, "x") /\ Has(c, "y"))
    \/ c.tool = "type_text" /\ ~Has(c, "text")
    \/ c.tool = "press_key" /\ ~Has(c, "key")
    \/ c.tool = "press_hotkey" /\ ~Has(c, "keys")
    \/ c.tool = "find_image_on_screen" /\ ~Has(c, "image_data_base64")

\* Base64 as RFC 4648 defines it: whole groups of four alphabet characters,
\* the last group ending in at most two pad characters.
IsValidBase64(s) ==
    /\ Len(s) % 4 = 0
    /\ \A i \in 1..Len(s) :
         \/ IsB64Char(s[i])
         \/ /\ s[i] = "="
            /\ i >= Len(s) - 1
            /\ (i = Len(s) \/ s[i + 1] = "=")

\* A find_image_on_screen call that reached the handler body with the
\* imaging library loaded.
FindRan ==
    /\ Responded
    /\ response.call.tool = "find_image_on_screen"
    /\ ~Violates(response.call)
    /\ PILImage = "module"

\* C1: a call whose arguments violate the tool's declared constraints ends
\* in the framework's validation error, no library call was made for it, and
\* no such call is ever found inside a handler.
C1_InvalidArgumentsRejected ==
    /\ (Responded /\ Violates(response.call)) =>
          /\ response.result.kind = "raise"
          /\ response.result.exc = "ValidationError"
          /\ response.prims = <<>>
    /\ \A t \in Tasks : task[t].pc # "idle" => ~Violates(task[t].call)

C1_Witness ==
    /\ Responded
    /\ response.call.tool = "click"
    /\ Has(response.call, "clicks")
    /\ response.call.args.clicks = 0
    /\ response.result.exc = "ValidationError"

\* C2: with the imaging library loaded, a find_image_on_screen call whose
\* string is not valid base64 ends in an InvalidArgument error and the
\* screen search is not invoked for it.
C2_MalformedBase64IsInvalidArgument ==
    /\ (FindRan /\ ~IsValidBase64(response.call.args.image_data_base64)) =>
          /\ response.result.kind = "raise"
          /\ response.result.exc \in InvalidArgument
          /\ "locateCenterOnScreen" \notin PrimNames(response.prims)
    /\ \A t \in Tasks :
          (task[t].pc = "prim" /\ task[t].call.tool = "find_image_on_screen")
              => IsValidBase64(task[t].call.args.image_data_base64)

\* The imaging library failed to load and an image tool was called.
ImageToolWithoutPillow ==
    /\ Responded
    /\ PILImage = "None"
    /\ response.call.tool \in {"find_image_on_screen", "take_screenshot"}

EndsPillowRequired ==
    /\ response.result = PillowRequired
    /\ response.prims = <<>>

\* C3 as stated: with the imaging library missing, every call of
\* find_image_on_screen and of take_screenshot ends in the Pillow error.
C3_EveryCallPillowRequired == ImageToolWithoutPillow => EndsPillowRequired

\* C3, amended: with the imaging library missing, every call of the two
\* image tools whose arguments pass validation ends in the Pillow error with
\* no decode, capture or search attempted, however malformed its string; no
\* call of the two is ever inside a library call; no other tool ends in the
\* Pillow error; and the flag never changes after startup.
C3_PillowRequiredOnceValidated ==
    /\ [](/\ (ImageToolWithoutPillow /\ ~Violates(response.call))
                => EndsPillowRequired
          /\ \A t \in Tasks :
                (PILImage = "None" /\ task[t].pc # "idle") =>
                    task[t].call.tool
                        \notin {"find_image_on_screen", "take_screenshot"}
          /\ (Responded /\ response.result = PillowRequired) =>
                response.call.tool
                    \in {"find_image_on_screen", "take_screenshot"})
    /\ [][PILImage' = PILImage]_vars

C3_Witness ==
    /\ ImageToolWithoutPillow
    /\ response.call.tool = "find_image_on_screen"
    /\ ~Violates(response.call)
    /\ ~IsValidBase64(response.call.args.image_data_base64)
    /\ EndsPillowRequired

\* C4: when the screen search of find_image_on_screen returns None the call
\* returns None, and when it returns a point the call returns that point;
\* neither ends in an error.
C4_NotFoundIsSuccess ==
    (Responded /\ response.call.tool = "find_image_on_screen") =>
        /\ response.outcome[1] = "None" => response.result = Return(<<"None">>)
        /\ response.outcome[1] = "point" => response.result = Return(response.outcome)

C4_Witness ==
    /\ FindRan
    /\ response.outcome[1] = "None"
    /\ "locateCenterOnScreen" \in PrimNames(response.prims)
    /\ response.result = Return(<<"None">>)

\* C5: every call ends in a result or in an error of the taxonomy: no
\* exception of another class leaves a handler.
C5_OnlyTaxonomyErrors ==
    Responded =>
        \/ response.result.kind = "return"
        \/ response.result.kind = "raise" /\ response.result.exc \in TaxonomyClasses

\* C6: when the platform call of an input tool fails, the call ends in the
\* one ActionFailed kind, a RuntimeError carrying the failure's message, for
\* all five tools alike and never in the class used for bad caller input.
C6_PlatformFailureIsActionFailed ==
    (/\ Responded
     /\ response.call.tool \in InputTools
     /\ response.outcome[1] = "raise"
     /\ PrimNames(response.prims) \cap PlatformPrims # {}) =>
        /\ response.result.kind = "raise"
        /\ response.result.exc = "RuntimeError"
        /\ response.result.exc \notin InvalidArgument
        /\ response.result.cause = response.outcome[2]

\* C7: bytes that decode from base64 but are not a raster image end the call
\* in an InvalidArgument error without a screen search; the MatchFailed
\* error comes only from a failed search.
C7_UndecodableImageIsInvalidArgument ==
    /\ (/\ FindRan
        /\ b64decode(response.call.args.image_data_base64).ok
        /\ ~IsRasterImage(b64decode(response.call.args.image_data_base64).bytes)) =>
          /\ response.result.kind = "raise"
          /\ response.result.exc \in InvalidArgument
          /\ "locateCenterOnScreen" \notin PrimNames(response.prims)
    /\ (Responded
          /\ response.result.msg = "An error occurred while trying to find the image") =>
          /\ "locateCenterOnScreen" \in PrimNames(response.prims)
          /\ response.outcome[1] = "raise"

\* A step taken for a call of one of the tools: the call ended in it, or its
\* coroutine moved.
StepOf(tools) ==
    \/ response' # response /\ response'.call.tool \in tools
    \/ \E t \in Tasks : task'[t] # task[t] /\ task'[t].call.tool \in tools

\* C8: the three tools annotated read-only make no pointer or keyboard call
\* and their steps leave the pointer and the keys held as they were; the
\* tools annotated destructive are the five input tools, and no tool is
\* annotated both ways.
C8_ReadOnlyToolsLeaveInput ==
    /\ [](/\ \A tool \in ReadOnlyTools : "readOnlyHint" \in Annotations(tool)
          /\ {tool \in Tools : "destructiveHint" \in Annotations(tool)} = InputTools
          /\ \A tool \in Tools :
                ~({"readOnlyHint", "destructiveHint"} \subseteq Annotations(tool))
          /\ (Responded /\ response.call.tool \in ReadOnlyTools) =>
                PrimNames(response.prims) \cap (PointerPrims \cup KeyboardPrims) = {}
          /\ \A t \in Tasks :
                task[t].call.tool \in ReadOnlyTools =>
                    PrimNames(task[t].prims) \cap (PointerPrims \cup KeyboardPrims) = {})
    /\ [][StepOf(ReadOnlyTools) => (pointer' = pointer /\ held' = held)]_vars

C8_Witness ==
    /\ Responded
    /\ response.call.tool = "find_image_on_screen"
    /\ response.outcome[1] = "point"
    /\ pointer # <<response.outcome[2], response.outcome[3]>>

\* C9: press_hotkey makes exactly one library call, hotkey with all the keys
\* in the caller's order, and while that call is under way every key of the
\* list is held down.
C9_HotkeyIsOneCombination ==
    /\ \A t \in Tasks :
          (task[t].pc = "prim" /\ task[t].call.tool = "press_hotkey") =>
              /\ Len(task[t].prims) = 1
              /\ task[t].prims[1].name = "hotkey"
              /\ task[t].prims[1].args = task[t].call.args.keys
              /\ held = Range(task[t].call.args.keys)
    /\ (Responded /\ response.call.tool = "press_hotkey"
          /\ ~Violates(response.call)) =>
              /\ Len(response.prims) = 1
              /\ response.prims[1].name = "hotkey"
              /\ response.prims[1].args = response.call.args.keys

C9_Witness ==
    \E t \in Tasks :
        /\ task[t].pc = "prim"
        /\ task[t].call.tool = "press_hotkey"
        /\ task[t].call.args.keys = <<"ctrl", "c">>
        /\ held = {"ctrl", "c"}

\* C10: at most one call is inside a platform call at a time, and it owns
\* the event loop until that call is over; the only handler suspended
\* anywhere else is click, at its log message and before its platform call.
C10_OnePlatformCallAtATime ==
    /\ Cardinality({t \in Tasks : task[t].pc = "prim"}) <= 1
    /\ \A t \in Tasks :
          /\ task[t].pc = "prim" => loop = t
          /\ task[t].pc = "log" =>
                /\ task[t].call.tool = "click"
                /\ PrimNames(task[t].prims) \cap PlatformPrims = {}
    /\ loop # 0 => task[loop].pc = "prim"

C10_Witness ==
    \E t, u \in Tasks :
        /\ task[t].pc = "log"
        /\ task[u].pc = "prim"
        /\ task[u].call.tool \in InputTools

====
